---- MODULE Spec2Model ----
(***************************************************************************)
(* Model of m3u-unpacker (src/main.py): download an M3U playlist, split it *)
(* into one file per entry under <base>/iptv/<channel>/ and aggregate the  *)
(* entries whose channel name contains a keyword into <base>/<keyword>.m3u.*)
(*                                                                         *)
(* A Python str is a sequence of characters; a character is a one-letter   *)
(* string, except the two named characters TAB and NBSP.  A file's content *)
(* is the sequence of its newline-terminated lines (lines produced by      *)
(* str.splitlines() hold no line break, so the two are in bijection).      *)
(* A path is the sequence of the components os.path.join put together.     *)
(***************************************************************************)
EXTENDS Integers, Sequences, FiniteSets, TLC

(***************************************************************************)
(* Characters and the str methods the program uses.                        *)
(***************************************************************************)
TAB == "TAB"
NBSP == "NBSP"

\* str.isspace() / the regex class \s on the characters of the model
IsSpace(c) == c \in {" ", TAB, NBSP}

UpperCase == <<"A","B","C","D","E","F","G","H","I","J","K","L","M",
               "N","O","P","Q","R","S","T","U","V","W","X","Y","Z">>
LowerCase == <<"a","b","c","d","e","f","g","h","i","j","k","l","m",
               "n","o","p","q","r","s","t","u","v","w","x","y","z">>

LowerChar(c) ==
  IF \E k \in 1..26 : UpperCase[k] = c
  THEN LowerCase[CHOOSE k \in 1..26 : UpperCase[k] = c]
  ELSE c

\* str.lower()
Lower(s) == [k \in 1..Len(s) |-> LowerChar(s[k])]

\* str.lstrip()
LStrip(s) ==
  IF \A k \in 1..Len(s) : IsSpace(s[k]) THEN <<>>
  ELSE SubSeq(s, CHOOSE k \in 1..Len(s) :
                   ~IsSpace(s[k]) /\ \A j \in 1..(k - 1) : IsSpace(s[j]),
              Len(s))

\* str.rstrip()
RStrip(s) ==
  IF \A k \in 1..Len(s) : IsSpace(s[k]) THEN <<>>
  ELSE SubSeq(s, 1, CHOOSE k \in 1..Len(s) :
                      ~IsSpace(s[k]) /\ \A j \in (k + 1)..Len(s) : IsSpace(s[j]))

\* str.strip()
Strip(s) == RStrip(LStrip(s))

\* str.startswith(p)
StartsWith(s, p) == Len(s) >= Len(p) /\ SubSeq(s, 1, Len(p)) = p

\* p in s (substring test)
Contains(s, p) ==
  \E k \in 0..(Len(s) - Len(p)) : SubSeq(s, k + 1, k + Len(p)) = p

\* c in s, for one character
HasChar(s, c) == \E k \in 1..Len(s) : s[k] = c

\* s.split(sep, 1)[1], for a one-character sep that occurs in s
AfterFirst(s, c) ==
  LET k == CHOOSE j \in 1..Len(s) : s[j] = c /\ \A m \in 1..(j - 1) : s[m] # c
  IN  SubSeq(s, k + 1, Len(s))

RECURSIVE Digits(_)
\* str(n) for n >= 0
Digits(n) ==
  LET d == <<"0","1","2","3","4","5","6","7","8","9">>[(n % 10) + 1]
  IN  IF n < 10 THEN <<d>> ELSE Digits(n \div 10) \o <<d>>

\* [c] * n
Rep(c, n) == [k \in 1..n |-> c]

RECURSIVE Flatten(_)
\* concatenation of a sequence of sequences
Flatten(ss) == IF ss = <<>> THEN <<>> ELSE Head(ss) \o Flatten(Tail(ss))

(***************************************************************************)
(* Name Sanitizer and Path Builder.                                        *)
(***************************************************************************)
MAX_FOLDER_CHARS == 80
MAX_FILE_BASENAME_CHARS == 120

IllegalPathChars == {"\\", "/", "*", "?", ":", "\"", "<", ">", "|"}

Unknown == <<"u","n","k","n","o","w","n">>

\* re.sub(r"\s+", " ", s): every maximal run of whitespace becomes one space
\* (the first character of a run is replaced, the rest of the run is dropped)
CollapseSpace(s) ==
  LET marked == [k \in 1..Len(s) |->
                   [c |-> IF IsSpace(s[k]) THEN " " ELSE s[k],
                    keep |-> ~IsSpace(s[k]) \/ k = 1 \/ ~IsSpace(s[k - 1])]]
      kept == SelectSeq(marked, LAMBDA m : m.keep)
  IN  [k \in 1..Len(kept) |-> kept[k].c]

\* mutant of safe_name: whitespace is trimmed but runs of it are not collapsed
safe_name_NoCollapse(s) ==
  LET s1 == [k \in 1..Len(s) |-> IF s[k] = NBSP THEN " " ELSE s[k]]
      s2 == [k \in 1..Len(s1) |-> IF s1[k] \in IllegalPathChars THEN "_" ELSE s1[k]]
      s3 == Strip(s2)
  IN  IF s3 = <<>> THEN Unknown ELSE s3

safe_name(s) ==
  LET s1 == [k \in 1..Len(s) |-> IF s[k] = NBSP THEN " " ELSE s[k]]
      s2 == [k \in 1..Len(s1) |-> IF s1[k] \in IllegalPathChars THEN "_" ELSE s1[k]]
      s3 == Strip(CollapseSpace(s2))
  IN  IF s3 = <<>> THEN Unknown ELSE s3

Max(a, b) == IF a >= b THEN a ELSE b

Ellipsis == <<".", ".", ".">>

truncate_with_ellipsis(stem, limit) ==
  IF Len(stem) > limit
  THEN RStrip(SubSeq(stem, 1, Max(1, limit - 3))) \o Ellipsis
  ELSE stem

DotM3u == <<".", "m", "3", "u">>
Iptv == <<"i", "p", "t", "v">>

\* mutant of channel_subdir: the flat layout, no fixed subdirectory
channel_subdir_Flat(base_dir, channel_stem) ==
  <<base_dir, truncate_with_ellipsis(channel_stem, MAX_FOLDER_CHARS)>>

\* the directory build_channel_output_path creates (os.makedirs, line 35)
channel_subdir(base_dir, channel_stem) ==
  <<base_dir, Iptv, truncate_with_ellipsis(channel_stem, MAX_FOLDER_CHARS)>>

\* mutant of channel_file_stem: the suffix test is off by one (seq >= 1)
channel_file_stem_SuffixFromFirst(channel_stem, seq) ==
  truncate_with_ellipsis(
    IF seq >= 1 THEN channel_stem \o <<"_">> \o Digits(seq) ELSE channel_stem,
    MAX_FILE_BASENAME_CHARS)

channel_file_stem(channel_stem, seq) ==
  truncate_with_ellipsis(
    IF seq > 1 THEN channel_stem \o <<"_">> \o Digits(seq) ELSE channel_stem,
    MAX_FILE_BASENAME_CHARS)

\* the path build_channel_output_path returns
build_channel_output_path(base_dir, channel_stem, seq) ==
  Append(channel_subdir(base_dir, channel_stem),
         channel_file_stem(channel_stem, seq) \o DotM3u)

build_keyword_output_path(base_dir, keyword) ==
  <<base_dir,
    truncate_with_ellipsis(safe_name(keyword), MAX_FILE_BASENAME_CHARS) \o DotM3u>>

(***************************************************************************)
(* Inputs: the playlist lines the download returns and the --keyword       *)
(* arguments.                                                              *)
(***************************************************************************)
MaxLines == 4

EXTINF == <<"#","E","X","T","I","N","F">>
EXTM3U == <<"#","E","X","T","M","3","U">>
BaseDir == <<"o","u","t">>

SportsHD == <<"S","p","o","r","t","s"," ","H","D">>
CHDXNews == <<"C","H","D","X"," ","N","e","w","s">>
LongName1 == Rep("x", MAX_FILE_BASENAME_CHARS + 1)
LongName2 == Rep("x", MAX_FILE_BASENAME_CHARS + 2)

MetaSportsHD == EXTINF \o <<":","-","1",",">> \o SportsHD
\* another metadata line of the same channel: " Sports<TAB>HD" sanitizes to "Sports HD"
MetaSportsHD2 == EXTINF \o <<":","0",","," ">> \o <<"S","p","o","r","t","s",TAB,"H","D">>
MetaCHDXNews == EXTINF \o <<":","-","1",",">> \o CHDXNews
MetaNoComma == EXTINF \o <<":","-","1">>
MetaBlankName == EXTINF \o <<":","-","1",","," ",NBSP>>
MetaUnknown == EXTINF \o <<":","-","1",",">> \o Unknown
MetaLong1 == EXTINF \o <<":","-","1",",">> \o LongName1
MetaLong2 == EXTINF \o <<":","-","1",",">> \o LongName2
Url1 == <<"h","t","t","p",":","/","/","x","/","1">>
Url2 == <<"h","t","t","p",":","/","/","x","/","2">>
BlankLine == <<" ", TAB>>

KwHD == <<"H","D">>
Kwhd == <<" ","h","d"," ">>
KwNews == <<"N","e","w","s">>

\* the playlist lines of the main specification
LinePool == {MetaSportsHD, MetaSportsHD2, MetaCHDXNews, MetaNoComma, Url1, EXTM3U}
KeywordArgs == {<<KwHD>>, <<KwNews, Kwhd, KwHD>>}

\* a playlist of a repeated short name and of a name beyond the file-stem budget
NamesLinePool == {MetaSportsHD, MetaSportsHD2, MetaLong1, Url1, EXTM3U}
NamesKeywordArgs == {<<KwHD>>}

\* a playlist whose metadata lines mostly give no channel name
UnknownLinePool ==
  {MetaNoComma, MetaBlankName, MetaUnknown, MetaSportsHD, Url2, BlankLine}
UnknownKeywordArgs == {<<>>, <<Unknown>>, <<KwHD, <<" ">>, KwHD>>}

\* a playlist of channel names beyond the file-stem budget, and keywords as long
LongLinePool == {MetaLong1, MetaLong2, Url1, Url2, BlankLine}
LongKeywordArgs == {<<LongName1, LongName2>>, <<LongName2>>}

\* raw --keyword arguments: padded, blank, empty, and differing only in case
KwNEWS == <<NBSP, "N","E","W","S", TAB>>
KwBlank == <<" ", NBSP>>
KwSportsHd == <<TAB, "s","p","o","r","t","s"," ","h","d">>
RawKeywordPool == {KwHD, Kwhd, KwNews, KwNEWS, KwBlank, KwSportsHd, <<>>}
MaxKeywords == 3

\* the playlists of the runs that vary the keyword arguments
KeywordDocs == {<<EXTM3U, MetaSportsHD, Url1>>, <<Url1, MetaCHDXNews, Url2>>}

\* all sequences over S of length at most n
SeqsUpTo(S, n) == UNION {[1..m -> S] : m \in 0..n}

(***************************************************************************)
(* State.                                                                  *)
(***************************************************************************)
VARIABLES
  pc,             \* where main() is
  document,       \* the playlist the URL serves, as lines
  args_keyword,   \* args.keyword: the --keyword arguments, as given
  lines,          \* resp.text.splitlines()
  pos,            \* number of lines the scan loop has consumed
  keywords,       \* the normalized keyword list
  keyword_blocks, \* keyword (lower) -> list of blocks
  name_counts,    \* channel name -> occurrences so far (defaultdict(int))
  current_block,
  channel_name,
  kwpos,          \* number of keywords the flush loop has consumed
  dirs,           \* directories created on disk
  files,          \* path -> content of the files written on disk
  warnings,       \* the logging.warning calls, in order
  call,           \* a function called on its own: its arguments and its result
  first_run       \* what an earlier run on the same input left, if there was one

vars == <<pc, document, args_keyword, lines, pos, keywords, keyword_blocks,
          name_counts, current_block, channel_name, kwpos, dirs, files, warnings,
          call, first_run>>

\* Python's None
None == <<"None">>

\* d[k] of a defaultdict(int) / dict.get(k, default)
Get(d, k, default) == IF k \in DOMAIN d THEN d[k] ELSE default

\* d[k] = v
Put(d, k, v) == [x \in DOMAIN d \cup {k} |-> IF x = k THEN v ELSE d[x]]

Warn(kind, line, path) == [kind |-> kind, line |-> line, path |-> path]

\* "\n".join(block) + "\n" as newline-terminated lines
BlockText(block) == block

(***************************************************************************)
(* main(): download, base folders, keyword normalization.                  *)
(***************************************************************************)
\* the outcome of an earlier run on the same input, when there was one
NotRun == [ran |-> FALSE, files |-> <<>>, warnings |-> <<>>]

InitWith(docs, kwargs) ==
  /\ pc = "start"
  /\ document \in docs
  /\ args_keyword \in kwargs
  /\ lines = <<>>
  /\ pos = 0
  /\ keywords = <<>>
  /\ keyword_blocks = <<>>
  /\ name_counts = <<>>
  /\ current_block = <<>>
  /\ channel_name = None
  /\ kwpos = 0
  /\ dirs = {}
  /\ files = <<>>
  /\ warnings = <<>>
  /\ call = None
  /\ first_run = NotRun

Init == InitWith(SeqsUpTo(LinePool, MaxLines), KeywordArgs)

\* requests.get succeeds with a success status: lines = resp.text.splitlines()
DownloadOk ==
  /\ pc = "start"
  /\ lines' = document
  /\ pc' = "ensure_dirs"
  /\ UNCHANGED <<call, first_run, document, args_keyword, pos, keywords, keyword_blocks, name_counts,
                 current_block, channel_name, kwpos, dirs, files, warnings>>

\* mutant of DownloadFails: the base folders are created before the download
DownloadFails_AfterDirs ==
  /\ pc = "start"
  /\ pc' = "aborted"
  /\ dirs' = dirs \cup {<<BaseDir>>, <<BaseDir, Iptv>>}
  /\ UNCHANGED <<call, first_run, document, args_keyword, lines, pos, keywords, keyword_blocks,
                 name_counts, current_block, channel_name, kwpos, files, warnings>>

\* requests.get raises, or raise_for_status raises: the exception leaves main()
DownloadFails ==
  /\ pc = "start"
  /\ pc' = "aborted"
  /\ UNCHANGED <<call, first_run, document, args_keyword, lines, pos, keywords, keyword_blocks,
                 name_counts, current_block, channel_name, kwpos, dirs, files, warnings>>

\* os.makedirs(os.path.join(base_dir, "iptv"), exist_ok=True)
EnsureDirsOk ==
  /\ pc = "ensure_dirs"
  /\ dirs' = dirs \cup {<<BaseDir>>, <<BaseDir, Iptv>>}
  /\ pc' = "keywords"
  /\ UNCHANGED <<call, first_run, document, args_keyword, lines, pos, keywords, keyword_blocks,
                 name_counts, current_block, channel_name, kwpos, files, warnings>>

\* the same makedirs raising OSError: nothing catches it
EnsureDirsFails ==
  /\ pc = "ensure_dirs"
  /\ pc' = "crashed"
  /\ UNCHANGED <<call, first_run, document, args_keyword, lines, pos, keywords, keyword_blocks,
                 name_counts, current_block, channel_name, kwpos, dirs, files, warnings>>

RECURSIVE NormalizeFrom_CaseSensitive(_, _, _)
\* mutant of NormalizeFrom: the seen set holds the keywords as given, not lower-cased
NormalizeFrom_CaseSensitive(args, seen, acc) ==
  IF args = <<>> THEN acc
  ELSE LET k_norm == Strip(Head(args))
       IN  IF k_norm = <<>> \/ k_norm \in seen
           THEN NormalizeFrom_CaseSensitive(Tail(args), seen, acc)
           ELSE NormalizeFrom_CaseSensitive(Tail(args), seen \cup {k_norm}, Append(acc, k_norm))

RECURSIVE NormalizeFrom(_, _, _)
\* the loop over args.keyword, from the state (seen, keywords) it has reached
NormalizeFrom(args, seen, acc) ==
  IF args = <<>> THEN acc
  ELSE LET k_norm == Strip(Head(args))
           key == Lower(k_norm)
       IN  IF k_norm = <<>> \/ key \in seen
           THEN NormalizeFrom(Tail(args), seen, acc)
           ELSE NormalizeFrom(Tail(args), seen \cup {key}, Append(acc, k_norm))

NormalizeKeywords(args) == NormalizeFrom(args, {}, <<>>)

\* the keyword preparation, the aggregation store and the scan's initial state
PrepareKeywords ==
  /\ pc = "keywords"
  /\ keywords' = NormalizeKeywords(args_keyword)
  /\ keyword_blocks' = [k \in {Lower(keywords'[j]) : j \in 1..Len(keywords')} |-> <<>>]
  /\ name_counts' = <<>>
  /\ current_block' = <<>>
  /\ channel_name' = None
  /\ pos' = 0
  /\ pc' = "scan"
  /\ UNCHANGED <<call, first_run, document, args_keyword, lines, kwpos, dirs, files, warnings>>

(***************************************************************************)
(* main(): the scan loop, one action per line and outcome.                 *)
(***************************************************************************)
\* line.startswith("#EXTINF")
IsMetadataLine(line) == StartsWith(line, EXTINF)

\* the elif of the loop: line.strip() and not line.startswith("#")
IsResourceLine(line) ==
  /\ ~IsMetadataLine(line)
  /\ Strip(line) # <<>>
  /\ ~StartsWith(line, <<"#">>)

\* mutant of IsNamed: the comparison with "unknown" is left out
IsNamed_AnyName(name) == name # None /\ name # <<>>

\* channel_name and channel_name != "unknown"
IsNamed(name) == name # None /\ name # <<>> /\ name # Unknown

\* the channel name a metadata line gives
MetadataName(line) ==
  IF HasChar(line, ",") THEN safe_name(AfterFirst(line, ",")) ELSE Unknown

RECURSIVE CollectMatches_Prepend(_, _, _, _)
\* mutant of CollectMatches: the block is put at the head of the buffer
CollectMatches_Prepend(kws, store, lower_name, block) ==
  IF kws = <<>> THEN store
  ELSE LET key == Lower(Head(kws))
           next == IF Contains(lower_name, key)
                   THEN Put(store, key, <<block>> \o store[key])
                   ELSE store
       IN  CollectMatches_Prepend(Tail(kws), next, lower_name, block)

RECURSIVE CollectMatches(_, _, _, _)
\* for kw in keywords: if kw.lower() in lower_name: keyword_blocks[kw.lower()].append(block)
CollectMatches(kws, store, lower_name, block) ==
  IF kws = <<>> THEN store
  ELSE LET key == Lower(Head(kws))
           next == IF Contains(lower_name, key)
                   THEN Put(store, key, Append(store[key], block))
                   ELSE store
       IN  CollectMatches(Tail(kws), next, lower_name, block)

\* mutant of ScanMetadata: a pending metadata line is kept, the new one added to it
ScanMetadata_KeepsPending ==
  /\ pc = "scan"
  /\ pos < Len(lines)
  /\ LET line == lines[pos + 1] IN
       /\ IsMetadataLine(line)
       /\ current_block' = Append(current_block, line)
       /\ channel_name' = MetadataName(line)
  /\ pos' = pos + 1
  /\ UNCHANGED <<call, first_run, pc, document, args_keyword, lines, keywords, keyword_blocks,
                 name_counts, kwpos, dirs, files, warnings>>

\* a line starting with #EXTINF: a new pending block
ScanMetadata ==
  /\ pc = "scan"
  /\ pos < Len(lines)
  /\ LET line == lines[pos + 1] IN
       /\ IsMetadataLine(line)
       /\ current_block' = <<line>>
       /\ channel_name' = MetadataName(line)
  /\ pos' = pos + 1
  /\ UNCHANGED <<call, first_run, pc, document, args_keyword, lines, keywords, keyword_blocks,
                 name_counts, kwpos, dirs, files, warnings>>

\* what every outcome of a resource line of a named channel shares, up to
\* the os.makedirs of build_channel_output_path
ResourceOfNamed ==
  /\ pc = "scan"
  /\ pos < Len(lines)
  /\ IsResourceLine(lines[pos + 1])
  /\ IsNamed(channel_name)
  /\ name_counts' = Put(name_counts, channel_name, Get(name_counts, channel_name, 0) + 1)

\* mutant of ResourceCompleted: the pending block is not cleared
ResourceCompleted_NoReset(block) ==
  /\ dirs' = dirs \cup {channel_subdir(BaseDir, channel_name)}
  /\ keyword_blocks' = CollectMatches(keywords, keyword_blocks, Lower(channel_name), block)
  /\ current_block' = block
  /\ channel_name' = channel_name
  /\ pos' = pos + 1

\* what the outcomes share once the directory exists: the keyword collection
\* and the reset of the pending block
ResourceCompleted(block) ==
  /\ dirs' = dirs \cup {channel_subdir(BaseDir, channel_name)}
  /\ keyword_blocks' = CollectMatches(keywords, keyword_blocks, Lower(channel_name), block)
  /\ current_block' = <<>>
  /\ channel_name' = None
  /\ pos' = pos + 1

\* mutant of ScanResourceWritten: the file also records something of the run itself
ScanResourceWritten_Stamped ==
  /\ ResourceOfNamed
  /\ LET block == Append(current_block, lines[pos + 1])
         out_path == build_channel_output_path(BaseDir, channel_name, name_counts'[channel_name])
     IN  /\ \E stamp \in {<<"#", "1">>, <<"#", "2">>} :
              files' = Put(files, out_path, Append(BlockText(block), stamp))
         /\ ResourceCompleted(block)
  /\ UNCHANGED <<call, first_run, pc, document, args_keyword, lines, keywords, kwpos, warnings>>

\* a resource line of a named channel, its file written
ScanResourceWritten ==
  /\ ResourceOfNamed
  /\ LET block == Append(current_block, lines[pos + 1])
         out_path == build_channel_output_path(BaseDir, channel_name, name_counts'[channel_name])
     IN  /\ files' = Put(files, out_path, BlockText(block))
         /\ ResourceCompleted(block)
  /\ UNCHANGED <<call, first_run, pc, document, args_keyword, lines, keywords, kwpos, warnings>>

\* the same, open() or write() raising OSError: a warning, and the scan goes on
ScanResourceWriteFails ==
  /\ ResourceOfNamed
  /\ LET block == Append(current_block, lines[pos + 1])
         out_path == build_channel_output_path(BaseDir, channel_name, name_counts'[channel_name])
     IN  /\ warnings' = Append(warnings, Warn("write_failed", <<>>, out_path))
         /\ ResourceCompleted(block)
  /\ UNCHANGED <<call, first_run, pc, document, args_keyword, lines, keywords, kwpos, files>>

\* the same, os.makedirs in build_channel_output_path raising OSError: the call
\* is outside the try, the exception leaves main()
ScanResourceMkdirFails ==
  /\ ResourceOfNamed
  /\ current_block' = Append(current_block, lines[pos + 1])
  /\ pos' = pos + 1
  /\ pc' = "crashed"
  /\ UNCHANGED <<call, first_run, document, args_keyword, lines, keywords, keyword_blocks,
                 channel_name, kwpos, dirs, files, warnings>>

\* a resource line with no named channel pending: the else branch
ScanResourceUnknown ==
  /\ pc = "scan"
  /\ pos < Len(lines)
  /\ IsResourceLine(lines[pos + 1])
  /\ ~IsNamed(channel_name)
  /\ warnings' = Append(warnings, Warn("unknown_channel", lines[pos + 1], <<>>))
  /\ current_block' = <<>>
  /\ channel_name' = None
  /\ pos' = pos + 1
  /\ UNCHANGED <<call, first_run, pc, document, args_keyword, lines, keywords, keyword_blocks,
                 name_counts, kwpos, dirs, files>>

\* mutant of ScanOther: a line of neither branch clears the pending entry
ScanOther_ClearsPending ==
  /\ pc = "scan"
  /\ pos < Len(lines)
  /\ ~IsMetadataLine(lines[pos + 1])
  /\ ~IsResourceLine(lines[pos + 1])
  /\ current_block' = <<>>
  /\ channel_name' = None
  /\ pos' = pos + 1
  /\ UNCHANGED <<call, first_run, pc, document, args_keyword, lines, keywords, keyword_blocks,
                 name_counts, kwpos, dirs, files, warnings>>

\* any other line: neither branch of the loop body
ScanOther ==
  /\ pc = "scan"
  /\ pos < Len(lines)
  /\ ~IsMetadataLine(lines[pos + 1])
  /\ ~IsResourceLine(lines[pos + 1])
  /\ pos' = pos + 1
  /\ UNCHANGED <<call, first_run, pc, document, args_keyword, lines, keywords, keyword_blocks,
                 name_counts, current_block, channel_name, kwpos, dirs, files, warnings>>

\* the loop is over
ScanEnd ==
  /\ pc = "scan"
  /\ pos = Len(lines)
  /\ pc' = "flush"
  /\ kwpos' = 0
  /\ UNCHANGED <<call, first_run, document, args_keyword, lines, pos, keywords, keyword_blocks,
                 name_counts, current_block, channel_name, dirs, files, warnings>>

(***************************************************************************)
(* main(): the keyword aggregate files.                                    *)
(***************************************************************************)
\* blocks = keyword_blocks.get(kw.lower(), [])
BlocksOf(kw) == Get(keyword_blocks, Lower(kw), <<>>)

\* "#EXTM3U\n" and then every block
AggregateText(blocks) == <<EXTM3U>> \o Flatten([k \in 1..Len(blocks) |-> BlockText(blocks[k])])

\* mutant of FlushSkip: the header is written for a keyword with no block
FlushSkip_WritesHeader ==
  /\ pc = "flush"
  /\ kwpos < Len(keywords)
  /\ BlocksOf(keywords[kwpos + 1]) = <<>>
  /\ files' = Put(files, build_keyword_output_path(BaseDir, keywords[kwpos + 1]), <<EXTM3U>>)
  /\ kwpos' = kwpos + 1
  /\ UNCHANGED <<call, first_run, pc, document, args_keyword, lines, pos, keywords, keyword_blocks,
                 name_counts, current_block, channel_name, dirs, warnings>>

\* a keyword with no block: continue
FlushSkip ==
  /\ pc = "flush"
  /\ kwpos < Len(keywords)
  /\ BlocksOf(keywords[kwpos + 1]) = <<>>
  /\ kwpos' = kwpos + 1
  /\ UNCHANGED <<call, first_run, pc, document, args_keyword, lines, pos, keywords, keyword_blocks,
                 name_counts, current_block, channel_name, dirs, files, warnings>>

\* a keyword with blocks, its aggregate file written
FlushWritten ==
  /\ pc = "flush"
  /\ kwpos < Len(keywords)
  /\ LET kw == keywords[kwpos + 1] IN
       /\ BlocksOf(kw) # <<>>
       /\ files' = Put(files, build_keyword_output_path(BaseDir, kw), AggregateText(BlocksOf(kw)))
  /\ kwpos' = kwpos + 1
  /\ UNCHANGED <<call, first_run, pc, document, args_keyword, lines, pos, keywords, keyword_blocks,
                 name_counts, current_block, channel_name, dirs, warnings>>

\* the same, open() or write() raising OSError
FlushWriteFails ==
  /\ pc = "flush"
  /\ kwpos < Len(keywords)
  /\ LET kw == keywords[kwpos + 1] IN
       /\ BlocksOf(kw) # <<>>
       /\ warnings' = Append(warnings,
            Warn("keyword_write_failed", <<>>, build_keyword_output_path(BaseDir, kw)))
  /\ kwpos' = kwpos + 1
  /\ UNCHANGED <<call, first_run, pc, document, args_keyword, lines, pos, keywords, keyword_blocks,
                 name_counts, current_block, channel_name, dirs, files>>

\* main() returns
FlushEnd ==
  /\ pc = "flush"
  /\ kwpos = Len(keywords)
  /\ pc' = "done"
  /\ UNCHANGED <<call, first_run, document, args_keyword, lines, pos, keywords, keyword_blocks,
                 name_counts, current_block, channel_name, kwpos, dirs, files, warnings>>

Next ==
  \/ DownloadOk
  \/ DownloadFails
  \/ EnsureDirsOk
  \/ EnsureDirsFails
  \/ PrepareKeywords
  \/ ScanMetadata
  \/ ScanResourceWritten
  \/ ScanResourceWriteFails
  \/ ScanResourceMkdirFails
  \/ ScanResourceUnknown
  \/ ScanOther
  \/ ScanEnd
  \/ FlushSkip
  \/ FlushWritten
  \/ FlushWriteFails
  \/ FlushEnd

Spec == Init /\ [][Next]_vars

InitNames == InitWith(SeqsUpTo(NamesLinePool, MaxLines), NamesKeywordArgs)

SpecNames == InitNames /\ [][Next]_vars

InitUnknown == InitWith(SeqsUpTo(UnknownLinePool, MaxLines), UnknownKeywordArgs)

SpecUnknown == InitUnknown /\ [][Next]_vars

InitLong == InitWith(SeqsUpTo(LongLinePool, MaxLines), LongKeywordArgs)

SpecLong == InitLong /\ [][Next]_vars

\* the playlists and keywords of the runs that are made twice
TwiceLinePool == {MetaSportsHD, MetaCHDXNews, Url1, EXTM3U}
TwiceKeywordArgs == {<<KwNews, Kwhd, KwHD>>}

InitTwice == InitWith(SeqsUpTo(TwiceLinePool, MaxLines), TwiceKeywordArgs)

\* main() has returned and is run again: the same URL content, the same arguments,
\* an empty target directory
Rerun ==
  /\ pc = "done"
  /\ ~first_run.ran
  /\ first_run' = [ran |-> TRUE, files |-> files, warnings |-> warnings]
  /\ pc' = "start"
  /\ lines' = <<>>
  /\ pos' = 0
  /\ keywords' = <<>>
  /\ keyword_blocks' = <<>>
  /\ name_counts' = <<>>
  /\ current_block' = <<>>
  /\ channel_name' = None
  /\ kwpos' = 0
  /\ dirs' = {}
  /\ files' = <<>>
  /\ warnings' = <<>>
  /\ UNCHANGED <<call, document, args_keyword>>

NextTwice == Next \/ Rerun

SpecTwice == InitTwice /\ [][NextTwice]_vars

InitKeywords == InitWith(KeywordDocs, SeqsUpTo(RawKeywordPool, MaxKeywords))

SpecKeywords == InitKeywords /\ [][Next]_vars

(***************************************************************************)
(* The helper functions called on their own, outside a run of main(): the  *)
(* arguments are drawn in the initial state, one step applies the function.*)
(***************************************************************************)
MaxStem == 5

\* the state of main() while a helper is called on its own: nothing has run
NoRun ==
  /\ pc = "call"
  /\ document = <<>>
  /\ args_keyword = <<>>
  /\ lines = <<>>
  /\ pos = 0
  /\ keywords = <<>>
  /\ keyword_blocks = <<>>
  /\ name_counts = <<>>
  /\ current_block = <<>>
  /\ channel_name = None
  /\ kwpos = 0
  /\ dirs = {}
  /\ files = <<>>
  /\ warnings = <<>>
  /\ first_run = NotRun

progvars == <<pc, document, args_keyword, lines, pos, keywords, keyword_blocks,
              name_counts, current_block, channel_name, kwpos, dirs, files, warnings,
              first_run>>

\* a call that has not returned yet
Called(fn, args) == [fn |-> fn, args |-> args, done |-> FALSE, result |-> <<>>]

\* the stems and limits truncate_with_ellipsis is called with
StemChars == {"a", " "}
Stems == SeqsUpTo(StemChars, MaxStem)
Limits == 1..(MaxStem + 1)

InitTruncate ==
  /\ NoRun
  /\ call \in {Called("truncate_with_ellipsis", <<s, b>>) : s \in Stems, b \in Limits}

\* truncate_with_ellipsis(stem, limit) returns
CallTruncate ==
  /\ call.fn = "truncate_with_ellipsis"
  /\ ~call.done
  /\ call' = [call EXCEPT !.done = TRUE,
                          !.result = truncate_with_ellipsis(call.args[1], call.args[2])]
  /\ UNCHANGED progvars

SpecTruncate == InitTruncate /\ [][CallTruncate]_vars

MaxRaw == 4

\* the raw names safe_name is called with
RawChars == {"a", " ", TAB, NBSP} \cup IllegalPathChars
RawNames == SeqsUpTo(RawChars, MaxRaw)

InitSanitize ==
  /\ NoRun
  /\ call \in {Called("safe_name", <<s>>) : s \in RawNames}

\* safe_name(s) returns
CallSafeName ==
  /\ call.fn = "safe_name"
  /\ ~call.done
  /\ call' = [call EXCEPT !.done = TRUE, !.result = safe_name(call.args[1])]
  /\ UNCHANGED progvars

\* safe_name is called on the name it has returned, and returns
CallSafeNameAgain ==
  /\ call.fn = "safe_name"
  /\ call.done
  /\ call' = [call EXCEPT !.args = <<call.result>>, !.result = safe_name(call.result)]
  /\ UNCHANGED progvars

NextSanitize == CallSafeName \/ CallSafeNameAgain

SpecSanitize == InitSanitize /\ [][NextSanitize]_vars

(***************************************************************************)
(* The playlist scanner as the design describes it, over line numbers: the *)
(* reference the properties below compare the program with.                *)
(***************************************************************************)
\* a line beginning with the metadata marker
MarkerLine(line) == Len(line) >= 7 /\ \A k \in 1..7 : line[k] = EXTINF[k]

\* a non-blank line that is not a comment
LocatorLine(line) ==
  /\ \E k \in 1..Len(line) : ~IsSpace(line[k])
  /\ line[1] # "#"

\* the last marker or locator line among the first p lines (0: none)
LastEvent(ls, p) ==
  LET E == {k \in 1..p : MarkerLine(ls[k]) \/ LocatorLine(ls[k])}
  IN  IF E = {} THEN 0 ELSE CHOOSE k \in E : \A j \in E : j <= k

\* the metadata line pending after the first p lines (0: awaiting-metadata)
Pending(ls, p) ==
  LET e == LastEvent(ls, p)
  IN  IF e # 0 /\ MarkerLine(ls[e]) THEN e ELSE 0

\* line k completes an entry: a locator line read in awaiting-resource
Completes(ls, k) == LocatorLine(ls[k]) /\ Pending(ls, k - 1) # 0

EntryBlock(ls, k) == <<ls[Pending(ls, k - 1)], ls[k]>>

EntryName(ls, k) == MetadataName(ls[Pending(ls, k - 1)])

\* the completed entries among the first p lines, by the number of their locator line
Entries(ls, p) == {k \in 1..p : Completes(ls, k)}

NamedEntries(ls, p) == {k \in Entries(ls, p) : EntryName(ls, k) # Unknown}

\* the occurrence number of the named entry k among the entries of its name
Occurrence(ls, k) ==
  Cardinality({j \in NamedEntries(ls, k) : EntryName(ls, j) = EntryName(ls, k)})

WriteFailures == SelectSeq(warnings, LAMBDA w : w.kind # "unknown_channel")

EntryFiles == {p \in DOMAIN files : Len(p) = 4}

\* the blocks of the named entries among the first p lines whose lower-cased name
\* contains key, in input order
RECURSIVE MatchedBlocks(_, _, _)
MatchedBlocks(ls, p, key) ==
  IF p = 0 THEN <<>>
  ELSE LET rest == MatchedBlocks(ls, p - 1, key)
       IN  IF /\ Completes(ls, p)
              /\ EntryName(ls, p) # Unknown
              /\ Contains(Lower(EntryName(ls, p)), key)
           THEN Append(rest, EntryBlock(ls, p))
           ELSE rest

\* the ellipsis rule of the design: the first budget - 3 characters, trimmed of
\* trailing whitespace, and "..."
EllipsisRule(s, budget) ==
  IF Len(s) <= budget THEN s
  ELSE RStrip([k \in 1..(budget - 3) |-> s[k]]) \o <<".", ".", ".">>

\* where the j-th entry named n belongs
ExpectedEntryFolder(n) == <<BaseDir, Iptv, EllipsisRule(n, MAX_FOLDER_CHARS)>>

ExpectedEntryPath(n, j) ==
  Append(ExpectedEntryFolder(n),
         EllipsisRule(IF j = 1 THEN n ELSE n \o <<"_">> \o Digits(j),
                      MAX_FILE_BASENAME_CHARS) \o DotM3u)

(***************************************************************************)
(* C1: after a run with no write failure every named entry has a file of   *)
(* its own holding its metadata line and its locator line: as many         *)
(* per-entry files as named entries.  Violated: two entries whose name is  *)
(* beyond the file-stem budget are written to one path.                    *)
(***************************************************************************)
\* C1: with no write failure, as many per-entry files as named entries, each entry's block in a file
C1_EveryNamedEntryHasItsFile ==
  (pc = "done" /\ WriteFailures = <<>>) =>
    /\ Cardinality(EntryFiles) = Cardinality(NamedEntries(lines, pos))
    /\ \A k \in NamedEntries(lines, pos) :
         \E p \in EntryFiles : files[p] = EntryBlock(lines, k)

(***************************************************************************)
(* C2: an entry is emitted exactly when a locator line is read while a     *)
(* metadata line is pending; its block is that metadata line and that      *)
(* locator line; after the emission nothing is pending.                    *)
(***************************************************************************)
\* between two lines, the program's pending block is the reference's
C2_ScannerState ==
  pc \in {"scan", "flush", "done"} =>
    LET m == Pending(lines, pos)
    IN  IF m # 0
        THEN current_block = <<lines[m]>> /\ channel_name # None
        ELSE current_block = <<>> /\ channel_name = None

\* the step that consumes line pos + 1
C2_EmitStep ==
  (pc = "scan" /\ pos' = pos + 1) =>
    LET k == pos + 1 IN
    IF Completes(lines, k)
    THEN /\ pc' = "scan" => current_block' = <<>> /\ channel_name' = None
         /\ pc' = "crashed" => current_block' = EntryBlock(lines, k)
         /\ files' # files =>
              \E p \in DOMAIN files' :
                /\ files'[p] = EntryBlock(lines, k)
                /\ \A q \in DOMAIN files : q # p => q \in DOMAIN files' /\ files'[q] = files[q]
         /\ \A key \in DOMAIN keyword_blocks :
              \/ keyword_blocks'[key] = keyword_blocks[key]
              \/ keyword_blocks'[key] = Append(keyword_blocks[key], EntryBlock(lines, k))
         /\ EntryName(lines, k) # Unknown =>
              \/ \E p \in DOMAIN files' : files' = Put(files, p, EntryBlock(lines, k))
              \/ Len(warnings') = Len(warnings) + 1
              \/ pc' = "crashed"
    ELSE /\ files' = files
         /\ keyword_blocks' = keyword_blocks
         /\ name_counts' = name_counts
         /\ dirs' = dirs
         /\ pc' = "scan"

\* C2: the pending block agrees with the reference scanner and each step emits as it says
C2_ScannerEmitsOnLocatorWhilePending == [](C2_ScannerState) /\ [][C2_EmitStep]_vars

\* an entry was emitted whose metadata line had replaced an earlier pending one
C2_Witness ==
  /\ pc = "scan"
  /\ pos >= 3
  /\ Completes(lines, pos)
  /\ Pending(lines, pos - 1) = pos - 1
  /\ MarkerLine(lines[pos - 2])
  /\ \E p \in DOMAIN files : files[p] = EntryBlock(lines, pos)
  /\ current_block = <<>>

(***************************************************************************)
(* C3 as stated: the k-th entry named n is written to the stem n (k = 1)   *)
(* or n_k (k > 1).  Fails for names beyond the file-stem budget.           *)
(***************************************************************************)
\* C3 (as stated): every per-entry file's stem is n or n_k of some named entry
C3_StemIsNameOrNameSeq ==
  \A p \in EntryFiles :
    \E k \in NamedEntries(lines, pos) :
      LET n == EntryName(lines, k)
          j == Occurrence(lines, k)
      IN  p[4] = (IF j = 1 THEN n ELSE n \o <<"_">> \o Digits(j)) \o DotM3u

(***************************************************************************)
(* C3 as amended: the counter of a name is the number of named entries of  *)
(* that name completed so far and never decreases; the k-th entry named n  *)
(* is written to the stem n (k = 1) or n_k (k > 1) cut to the file-stem    *)
(* budget by the ellipsis rule, in the folder of every occurrence of n.    *)
(***************************************************************************)
C3_CounterState ==
  \A n \in DOMAIN name_counts \cup {EntryName(lines, k) : k \in NamedEntries(lines, pos)} :
    Get(name_counts, n, 0) =
      Cardinality({k \in NamedEntries(lines, pos) : EntryName(lines, k) = n})

C3_CounterStep ==
  \A n \in DOMAIN name_counts :
    /\ n \in DOMAIN name_counts'
    /\ name_counts'[n] \in {name_counts[n], name_counts[n] + 1}

C3_WriteStep ==
  (/\ pc = "scan" /\ pc' = "scan"
   /\ pos' = pos + 1
   /\ Completes(lines, pos + 1)
   /\ EntryName(lines, pos + 1) # Unknown) =>
    LET k == pos + 1
        n == EntryName(lines, k)
        path == ExpectedEntryPath(n, Occurrence(lines, k))
    IN  /\ ExpectedEntryFolder(n) \in dirs'
        /\ \/ warnings' = warnings /\ files' = Put(files, path, EntryBlock(lines, k))
           \/ files' = files /\ warnings' = Append(warnings, Warn("write_failed", <<>>, path))

\* C3 (as amended): the counter counts named entries; the write goes to the budgeted stem
C3_CounterAndTruncatedStem ==
  [](C3_CounterState) /\ [][C3_CounterStep /\ C3_WriteStep]_vars

\* "Sports HD" has been completed twice: Sports HD.m3u and Sports HD_2.m3u, one folder
C3_Witness ==
  /\ Get(name_counts, SportsHD, 0) = 2
  /\ <<BaseDir, Iptv, SportsHD, SportsHD \o DotM3u>> \in DOMAIN files
  /\ <<BaseDir, Iptv, SportsHD, SportsHD \o <<"_", "2">> \o DotM3u>> \in DOMAIN files
  /\ files[<<BaseDir, Iptv, SportsHD, SportsHD \o DotM3u>>]
       # files[<<BaseDir, Iptv, SportsHD, SportsHD \o <<"_", "2">> \o DotM3u>>]

(***************************************************************************)
(* C4: a keyword's aggregate holds exactly the blocks of the named entries *)
(* completed so far whose lower-cased name contains the lower-cased        *)
(* keyword, whatever became of the entry's own file.  Violated when the    *)
(* entry's folder cannot be created: the run ends before the collection.   *)
(***************************************************************************)
\* C4: each keyword's aggregate is exactly the matching named entries' blocks so far
C4_AggregateIffMatch ==
  \A j \in 1..Len(keywords) :
    keyword_blocks[Lower(keywords[j])] = MatchedBlocks(lines, pos, Lower(keywords[j]))

(***************************************************************************)
(* C5: after a run with no write failure, the file at the aggregate path   *)
(* of every keyword with a match is #EXTM3U and then that keyword's        *)
(* matched blocks in input order.  Violated: two keywords beyond the       *)
(* file-stem budget are flushed to one path.                               *)
(***************************************************************************)
\* C5: with no write failure, each matched keyword's file is #EXTM3U and its blocks in order
C5_AggregateFileContent ==
  (pc = "done" /\ WriteFailures = <<>>) =>
    \A j \in 1..Len(keywords) :
      LET blocks == MatchedBlocks(lines, pos, Lower(keywords[j]))
          path == build_keyword_output_path(BaseDir, keywords[j])
      IN  blocks # <<>> =>
            /\ path \in DOMAIN files
            /\ files[path] = <<EXTM3U>> \o Flatten(blocks)

(***************************************************************************)
(* C6: an OS error while producing an output file never ends the run: once *)
(* the scan has consumed a line the run does not end in an exception.      *)
(* Violated: os.makedirs of the entry's folder is outside the try.         *)
(***************************************************************************)
\* C6: the run never ends in an exception once the scan has consumed a line
C6_OutputFailureNeverFatal == pc = "crashed" => pos = 0

(***************************************************************************)
(* C7: a completed entry whose channel name is "unknown" gives a warning   *)
(* and nothing else: no file, no folder, no aggregate append, no counter   *)
(* change, and the scanner is left awaiting metadata as after any entry.   *)
(***************************************************************************)
C7_UnknownStep ==
  (/\ pc = "scan"
   /\ pos' = pos + 1
   /\ Completes(lines, pos + 1)
   /\ EntryName(lines, pos + 1) = Unknown) =>
    /\ warnings' = Append(warnings, Warn("unknown_channel", lines[pos + 1], <<>>))
    /\ files' = files
    /\ dirs' = dirs
    /\ keyword_blocks' = keyword_blocks
    /\ name_counts' = name_counts
    /\ pc' = "scan"
    /\ current_block' = <<>>
    /\ channel_name' = None

\* nothing on disk or in the stores carries the name "unknown"
C7_NoTrace ==
  /\ Unknown \notin DOMAIN name_counts
  /\ \A p \in DOMAIN files : Len(p) = 4 => p[3] # Unknown
  /\ <<BaseDir, Iptv, Unknown>> \notin dirs
  /\ \A key \in DOMAIN keyword_blocks : \A j \in 1..Len(keyword_blocks[key]) :
       MetadataName(keyword_blocks[key][j][1]) # Unknown

\* C7: an entry named "unknown" leaves one warning and no other trace
C7_UnknownEntryOnlyWarns == [](C7_NoTrace) /\ [][C7_UnknownStep]_vars

\* two unknown entries have been skipped, one whose name sanitizes to nothing and
\* one whose name is the word itself, though a keyword "unknown" was given
C7_Witness ==
  /\ pc = "done"
  /\ keywords = <<Unknown>>
  /\ \E j, k \in Entries(lines, pos) :
       /\ lines[Pending(lines, j - 1)] = MetaBlankName
       /\ lines[Pending(lines, k - 1)] = MetaUnknown
  /\ Len(warnings) = 2
  /\ files = <<>>

(***************************************************************************)
(* C8: whole-word matching: an entry is in a keyword's aggregate only if   *)
(* the keyword occurs in its name bounded on both sides by a non-word      *)
(* character or an end of the name.  Violated: the program only has the    *)
(* substring rule.                                                         *)
(***************************************************************************)
IsWordChar(c) ==
  \/ c = "_"
  \/ c \in {"0","1","2","3","4","5","6","7","8","9"}
  \/ \E k \in 1..26 : c = UpperCase[k] \/ c = LowerCase[k]

WholeWordIn(name, key) ==
  \E k \in 0..(Len(name) - Len(key)) :
    /\ \A j \in 1..Len(key) : name[k + j] = key[j]
    /\ k = 0 \/ ~IsWordChar(name[k])
    /\ k + Len(key) = Len(name) \/ ~IsWordChar(name[k + Len(key) + 1])

\* C8: every block of an aggregate comes from a name holding the keyword as a whole word
C8_WholeWordOnly ==
  \A key \in DOMAIN keyword_blocks :
    \A j \in 1..Len(keyword_blocks[key]) :
      WholeWordIn(Lower(MetadataName(keyword_blocks[key][j][1])), key)

(***************************************************************************)
(* C9: a failed retrieval ends the run before any output: no directory, no *)
(* file, no line scanned.  Every filesystem effect follows a download.     *)
(***************************************************************************)
\* C9: nothing is created, written or scanned unless the download succeeded
C9_NoOutputWithoutRetrieval ==
  /\ pc \in {"start", "aborted"} =>
       /\ dirs = {}
       /\ files = <<>>
       /\ warnings = <<>>
       /\ lines = <<>>
       /\ pos = 0
  /\ (dirs # {} \/ files # <<>> \/ pos > 0) => lines = document

\* the retrieval of a playlist with entries and keywords has failed
C9_Witness ==
  /\ pc = "aborted"
  /\ Len(document) = MaxLines
  /\ Entries(document, Len(document)) # {}
  /\ args_keyword # <<>>

(***************************************************************************)
(* C10: a warning is given only for a completed entry named "unknown" or   *)
(* for a failed write: there are as many unknown-channel warnings as       *)
(* completed unknown entries.  Violated: a locator line with no metadata   *)
(* line pending is warned about too.                                       *)
(***************************************************************************)
\* C10: unknown-channel warnings are as many as completed entries named "unknown"
C10_WarningsOnlyForUnknownOrFailure ==
  Len(SelectSeq(warnings, LAMBDA w : w.kind = "unknown_channel"))
    = Cardinality(Entries(lines, pos) \ NamedEntries(lines, pos))

(***************************************************************************)
(* C11: truncate-with-ellipsis of a string longer than the budget has      *)
(* exactly the budget's length and ends with "..."; a string within the    *)
(* budget is returned unchanged.  Violated: the kept prefix loses its      *)
(* trailing whitespace, and a budget under 4 still keeps one character.    *)
(***************************************************************************)
\* C11: beyond the budget the result has exactly the budget's length and ends with "..."
C11_TruncateExactBudget ==
  (call.fn = "truncate_with_ellipsis" /\ call.done) =>
    LET s == call.args[1]
        b == call.args[2]
        r == call.result
    IN  IF Len(s) > b
        THEN Len(r) = b /\ Len(r) >= 3 /\ SubSeq(r, Len(r) - 2, Len(r)) = <<".", ".", ".">>
        ELSE r = s

(***************************************************************************)
(* C12: with no keyword given the per-entry files lie in                   *)
(* <base>/<folder>/, with a keyword in <base>/iptv/<folder>/; an aggregate *)
(* file lies directly in <base>/.  As amended: the per-entry files lie in  *)
(* <base>/iptv/<folder>/ whether or not a keyword is given.                *)
(***************************************************************************)
\* a file written by the flush: it begins with the playlist header
IsAggregateFile(p) == files[p][1] = EXTM3U

\* C12 (as amended): per-entry files in <base>/iptv/<folder>/, aggregates in <base>/, always
C12_EntriesUnderIptv ==
  \A p \in DOMAIN files :
    IF IsAggregateFile(p)
    THEN Len(p) = 2 /\ p[1] = BaseDir
    ELSE /\ Len(p) = 4 /\ p[1] = BaseDir /\ p[2] = Iptv
         /\ p[3] = EllipsisRule(MetadataName(files[p][1]), MAX_FOLDER_CHARS)

\* C12 (as stated): per-entry files in <base>/<folder>/ without keywords, under iptv/ with
C12_LayoutByAggregation ==
  IF args_keyword = <<>>
  THEN \A p \in DOMAIN files :
         /\ ~IsAggregateFile(p)
         /\ Len(p) = 3 /\ p[1] = BaseDir
         /\ p[2] = EllipsisRule(MetadataName(files[p][1]), MAX_FOLDER_CHARS)
  ELSE C12_EntriesUnderIptv

\* a run with keywords has ended with a per-entry file and an aggregate file on disk
C12_Witness ==
  /\ pc = "done"
  /\ args_keyword # <<>>
  /\ <<BaseDir, Iptv, SportsHD, SportsHD \o DotM3u>> \in DOMAIN files
  /\ <<BaseDir, KwHD \o DotM3u>> \in DOMAIN files

(***************************************************************************)
(* C13: a keyword that matches no completed entry produces no aggregate    *)
(* file: its turn in the flush writes nothing and warns of nothing, and    *)
(* every aggregate file on disk was written for a keyword whose buffer is  *)
(* not empty.                                                              *)
(***************************************************************************)
\* the turn in the flush of a keyword that no completed entry matched
C13_SkipStep ==
  (/\ pc = "flush"
   /\ kwpos' = kwpos + 1
   /\ MatchedBlocks(lines, Len(lines), Lower(keywords[kwpos + 1])) = <<>>) =>
    /\ files' = files
    /\ warnings' = warnings
    /\ dirs' = dirs

\* every aggregate file is the file of a flushed keyword with a non-empty buffer
C13_FilesOfMatchedOnly ==
  \A p \in DOMAIN files :
    IsAggregateFile(p) =>
      \E j \in 1..kwpos :
        /\ p = build_keyword_output_path(BaseDir, keywords[j])
        /\ keyword_blocks[Lower(keywords[j])] # <<>>
        /\ files[p] # <<EXTM3U>>

\* C13: no aggregate file is produced for a keyword with an empty buffer
C13_NoEmptyAggregate == [](C13_FilesOfMatchedOnly) /\ [][C13_SkipStep]_vars

\* a run has ended with two keywords, one matched (its file exists) and one not (no file)
C13_Witness ==
  /\ pc = "done"
  /\ keywords = <<KwNews, <<"h", "d">> >>
  /\ keyword_blocks[Lower(KwNews)] = <<>>
  /\ MatchedBlocks(lines, Len(lines), Lower(KwNews)) = <<>>
  /\ <<BaseDir, <<"h", "d">> \o DotM3u>> \in DOMAIN files
  /\ <<BaseDir, KwNews \o DotM3u>> \notin DOMAIN files

(***************************************************************************)
(* C14: the keyword list is the trimmed form of every argument that is not *)
(* blank and whose lower-cased trimmed form no earlier argument has, in    *)
(* the order of the arguments; the store has one empty buffer for each.    *)
(***************************************************************************)
\* t is s without its leading and trailing whitespace
TrimOf(s, t) ==
  \E i \in 1..(Len(s) + 1) :
    LET j == i + Len(t) - 1 IN
    /\ j <= Len(s)
    /\ \A k \in 1..Len(t) : t[k] = s[i + k - 1]
    /\ \A k \in 1..(i - 1) : IsSpace(s[k])
    /\ \A k \in (j + 1)..Len(s) : IsSpace(s[k])
    /\ t # <<>> => ~IsSpace(t[1]) /\ ~IsSpace(t[Len(t)])

\* a and b are equal but for the case of their letters
SameButCase(a, b) ==
  Len(a) = Len(b) /\ \A k \in 1..Len(a) : LowerChar(a[k]) = LowerChar(b[k])

\* the trimmed form of s: the one piece of s that TrimOf accepts
Trimmed(s) ==
  CHOOSE t \in {SubSeq(s, i, j) : i \in 1..(Len(s) + 1), j \in 0..Len(s)} : TrimOf(s, t)

\* the arguments, by their index, that give a keyword: the trimmed form is not
\* empty, and no earlier argument has it but for case
FirstOccurrences(trimmed) ==
  {i \in 1..Len(trimmed) :
     trimmed[i] # <<>> /\ \A j \in 1..(i - 1) : ~SameButCase(trimmed[j], trimmed[i])}

C14_Normalized ==
  LET T == [i \in 1..Len(args_keyword) |-> Trimmed(args_keyword[i])]
      F == FirstOccurrences(T)
      Rank(i) == Cardinality({j \in F : j <= i})
  IN  /\ Len(keywords) = Cardinality(F)
      /\ \A i \in F : keywords[Rank(i)] = T[i]
      /\ \A r \in 1..Len(keywords) : keywords[r] # <<>>
      /\ \A r, q \in 1..Len(keywords) : r # q => ~SameButCase(keywords[r], keywords[q])
      /\ \A i \in 1..Len(T) :
           T[i] = <<>> \/ \E r \in 1..Len(keywords) : SameButCase(T[i], keywords[r])

\* one buffer per keyword, under its lower-cased form, empty when the scan begins
C14_Store ==
  /\ DOMAIN keyword_blocks = {Lower(keywords[r]) : r \in 1..Len(keywords)}
  /\ Cardinality(DOMAIN keyword_blocks) = Len(keywords)
  /\ \A key \in DOMAIN keyword_blocks : keyword_blocks[key] = <<>>

\* the keyword list and the buffers' keys are set once, before the scan
C14_SetOnce ==
  pc # "keywords" =>
    keywords' = keywords /\ DOMAIN keyword_blocks' = DOMAIN keyword_blocks

\* C14: trimmed, no blank, first casing of each case-insensitive form, in order; one buffer each
C14_KeywordNormalization ==
  []((pc = "scan" /\ pos = 0) => (C14_Normalized /\ C14_Store)) /\ [][C14_SetOnce]_vars

\* " hd ", a blank argument and "HD" have become the one keyword "hd"
C14_Witness ==
  /\ pc = "scan"
  /\ pos = 0
  /\ args_keyword = <<Kwhd, KwBlank, KwHD>>
  /\ keywords = << <<"h", "d">> >>

(***************************************************************************)
(* C15: a sanitized name holds none of \\ / * ? : " < > |, neither begins  *)
(* nor ends with whitespace, has no two whitespace characters in a row, is *)
(* not empty, and is "unknown" when the raw name is empty or blank;        *)
(* sanitizing it again returns it unchanged.                               *)
(***************************************************************************)
C15_Sanitized ==
  (call.fn = "safe_name" /\ call.done) =>
    LET s == call.args[1]
        r == call.result
    IN  /\ \A k \in 1..Len(r) :
             r[k] \notin {"\\", "/", "*", "?", ":", "\"", "<", ">", "|"}
        /\ r # <<>>
        /\ ~IsSpace(r[1]) /\ ~IsSpace(r[Len(r)])
        /\ \A k \in 1..(Len(r) - 1) : ~(IsSpace(r[k]) /\ IsSpace(r[k + 1]))
        /\ (\A k \in 1..Len(s) : IsSpace(s[k])) => r = <<"u","n","k","n","o","w","n">>

\* the call on a returned name returns that name
C15_AgainStep ==
  (call.fn = "safe_name" /\ call.done /\ call'.done) =>
    call'.args = <<call.result>> /\ call'.result = call.result

\* C15: no forbidden character, trimmed, single spaces, never empty, "unknown" for blank; idempotent
C15_SanitizerContract == [](C15_Sanitized) /\ [][C15_AgainStep]_vars

\* a raw name with a non-breaking space, a slash and a run of whitespace has been sanitized
C15_Witness ==
  /\ call.fn = "safe_name"
  /\ call.done
  /\ call.args = << <<NBSP, "/", TAB, "a">> >>
  /\ call.result = <<"_", " ", "a">>

(***************************************************************************)
(* C16: two runs on the same lines and the same keywords, each from an     *)
(* empty target directory and with no write failure, leave the same paths  *)
(* with the same contents.                                                 *)
(***************************************************************************)
\* the warnings of a failed write among ws
FailuresIn(ws) == SelectSeq(ws, LAMBDA w : w.kind # "unknown_channel")

C17_DiscardStep ==
  (/\ pc = "scan"
   /\ \/ pos' = pos + 1 /\ MarkerLine(lines[pos + 1])
      \/ pos = Len(lines) /\ pc' # "scan") =>
    /\ files' = files
    /\ dirs' = dirs
    /\ keyword_blocks' = keyword_blocks
    /\ name_counts' = name_counts
    /\ warnings' = warnings

\* the blocks of the named entries completed among the first p lines
CompletedBlocks(ls, p) == {EntryBlock(ls, k) : k \in NamedEntries(ls, p)}

RECURSIVE SumOver(_, _)
\* the sum of f over the keys in S
SumOver(f, S) ==
  IF S = {} THEN 0
  ELSE LET x == CHOOSE y \in S : TRUE IN f[x] + SumOver(f, S \ {x})

C17_OnlyCompleted ==
  LET completed == CompletedBlocks(lines, pos) IN
  /\ \A p \in DOMAIN files :
       IF IsAggregateFile(p)
       THEN \A k \in 1..((Len(files[p]) - 1) \div 2) :
              <<files[p][2 * k], files[p][2 * k + 1]>> \in completed
       ELSE files[p] \in completed
  /\ \A key \in DOMAIN keyword_blocks : \A j \in 1..Len(keyword_blocks[key]) :
       keyword_blocks[key][j] \in completed
  /\ SumOver(name_counts, DOMAIN name_counts) = Cardinality(NamedEntries(lines, pos))
  /\ \A j \in 1..Len(warnings) :
       warnings[j].kind = "unknown_channel" =>
         \E k \in 1..pos : LocatorLine(lines[k]) /\ warnings[j].line = lines[k]
  /\ Len(warnings) <= Cardinality({k \in 1..pos : LocatorLine(lines[k])}) + kwpos

\* C17: a metadata line with no locator line after it is never emitted, counted or warned of
C17_IncompleteNeverEmitted == [](C17_OnlyCompleted) /\ [][C17_DiscardStep]_vars

\* of three metadata lines only the second was completed: one file, one count, no warning
C17_Witness ==
  /\ pc = "done"
  /\ lines = <<MetaCHDXNews, MetaSportsHD, Url1, MetaSportsHD2>>
  /\ EntryFiles = {<<BaseDir, Iptv, SportsHD, SportsHD \o DotM3u>>}
  /\ files[<<BaseDir, Iptv, SportsHD, SportsHD \o DotM3u>>] = <<MetaSportsHD, Url1>>
  /\ name_counts = [n \in {SportsHD} |-> 1]
  /\ warnings = <<>>

(***************************************************************************)
(* C18: a blank line, a comment line that is not a metadata line, and a    *)
(* locator line read while no metadata line is pending leave the pending   *)
(* entry, the counters, the aggregates and the files as they were, and are *)
(* no line of any block written or buffered.                               *)
(***************************************************************************)
\* line k is ignored: no metadata line, and no locator line read while one is pending
IgnoredLine(ls, k) ==
  /\ ~MarkerLine(ls[k])
  /\ ~LocatorLine(ls[k]) \/ Pending(ls, k - 1) = 0

C18_IgnoredStep ==
  (pc = "scan" /\ pos' = pos + 1 /\ IgnoredLine(lines, pos + 1)) =>
    /\ pc' = "scan"
    /\ current_block' = current_block
    /\ channel_name' = channel_name
    /\ name_counts' = name_counts
    /\ keyword_blocks' = keyword_blocks
    /\ files' = files
    /\ dirs' = dirs

\* the blocks written or buffered so far
EmittedBlocks ==
  {files[p] : p \in EntryFiles}
    \cup UNION {{<<files[p][2 * k], files[p][2 * k + 1]>> :
                   k \in 1..((Len(files[p]) - 1) \div 2)} : p \in DOMAIN files \ EntryFiles}
    \cup UNION {{keyword_blocks[key][j] : j \in 1..Len(keyword_blocks[key])} :
                key \in DOMAIN keyword_blocks}

\* each block is a metadata line and a locator line that are not ignored lines
C18_NoIgnoredLineInBlocks ==
  \A b \in EmittedBlocks :
    /\ Len(b) = 2
    /\ MarkerLine(b[1])
    /\ \E k \in 1..pos : ~IgnoredLine(lines, k) /\ LocatorLine(lines[k]) /\ b[2] = lines[k]

\* C18: ignored lines change nothing of entry, counters, aggregates and files, and are in no block
C18_IgnoredLinesNoEffect == [](C18_NoIgnoredLineInBlocks) /\ [][C18_IgnoredStep]_vars

\* a locator line with nothing pending and a comment line between a metadata line and
\* its locator line were read: one entry, written whole
C18_Witness ==
  /\ pc = "done"
  /\ lines = <<Url1, MetaSportsHD, EXTM3U, Url1>>
  /\ EntryFiles = {<<BaseDir, Iptv, SportsHD, SportsHD \o DotM3u>>}
  /\ files[<<BaseDir, Iptv, SportsHD, SportsHD \o DotM3u>>] = <<MetaSportsHD, Url1>>
  /\ name_counts = [n \in {SportsHD} |-> 1]

(***************************************************************************)
(* C19: during the scan a keyword's buffer changes only by one block added *)
(* at its end; no aggregate file exists before the last line has been      *)
(* read; during the flush the buffers do not change and the keywords are   *)
(* flushed one after the other in the order of the keyword list, each at   *)
(* most once.                                                              *)
(***************************************************************************)
C19_ScanStep ==
  pc = "scan" =>
    /\ DOMAIN keyword_blocks' = DOMAIN keyword_blocks
    /\ \A key \in DOMAIN keyword_blocks :
         \/ keyword_blocks'[key] = keyword_blocks[key]
         \/ /\ Len(keyword_blocks'[key]) = Len(keyword_blocks[key]) + 1
            /\ \A j \in 1..Len(keyword_blocks[key]) :
                 keyword_blocks'[key][j] = keyword_blocks[key][j]
            /\ pos' = pos + 1
            /\ keyword_blocks'[key][Len(keyword_blocks[key]) + 1]
                 = <<lines[Pending(lines, pos)], lines[pos + 1]>>

C19_FlushStep ==
  pc \in {"flush", "done"} =>
    /\ keyword_blocks' = keyword_blocks
    /\ keywords' = keywords
    /\ kwpos' \in {kwpos, kwpos + 1}
    /\ files' # files =>
         /\ kwpos' = kwpos + 1
         /\ files' = Put(files, build_keyword_output_path(BaseDir, keywords[kwpos + 1]),
                         <<EXTM3U>> \o Flatten(keyword_blocks[Lower(keywords[kwpos + 1])]))

\* an aggregate file exists only once every line is read, and only for a keyword whose
\* turn in the flush has come
C19_NoEarlyAggregate ==
  \A p \in DOMAIN files :
    IsAggregateFile(p) =>
      /\ pc \in {"flush", "done"}
      /\ pos = Len(lines)
      /\ \E j \in 1..kwpos : p = build_keyword_output_path(BaseDir, keywords[j])

\* C19: buffers only grow at the end during the scan, files come after it, in keyword order
C19_BuffersAndFlushOrder ==
  [](C19_NoEarlyAggregate) /\ [][C19_ScanStep /\ C19_FlushStep]_vars

\* two keywords have been flushed in turn, one with a buffer of two blocks
C19_Witness ==
  /\ pc = "done"
  /\ kwpos = 2
  /\ keywords = <<KwNews, <<"h", "d">> >>
  /\ keyword_blocks[<<"h", "d">>] = << <<MetaCHDXNews, Url1>>, <<MetaSportsHD, Url1>> >>
  /\ <<BaseDir, KwNews \o DotM3u>> \in DOMAIN files
  /\ <<BaseDir, <<"h", "d">> \o DotM3u>> \in DOMAIN files

(***************************************************************************)
(* C20: two keywords of the keyword list (distinct after trimming and      *)
(* lower-casing) that have both been flushed have been flushed to          *)
(* different paths, so that neither flush replaced the other's file.       *)
(* Violated: two keywords that agree on their first 117 characters and are *)
(* longer than the file-stem budget are flushed to one path.               *)
(***************************************************************************)
\* keyword j of the list has had its turn in the flush and had blocks to write
Flushed(j) == j <= kwpos /\ keyword_blocks[Lower(keywords[j])] # <<>>

\* C20: distinct keywords that were flushed were flushed to different paths
C20_DistinctKeywordsDistinctPaths ==
  pc \in {"flush", "done"} =>
    \A j, k \in 1..Len(keywords) :
      (j # k /\ Flushed(j) /\ Flushed(k)) =>
        build_keyword_output_path(BaseDir, keywords[j])
          # build_keyword_output_path(BaseDir, keywords[k])

====
